---- MODULE Spec2Model ----
(***************************************************************************)
(* Model of src/main.py: the DAP library cleaner.                          *)
(*                                                                         *)
(* A str is a sequence of characters, each character a one-element TLA+    *)
(* string; a character outside printable ASCII is written as a token       *)
(* ("TAB", "U+00E9").  A Path is the sequence of its parts relative to the  *)
(* scan root.                                                              *)
(***************************************************************************)
EXTENDS Integers, Sequences, FiniteSets, TLC

VARIABLES
    pc,            \* position of main(): prompt, scan_dirs, scan, summary, menu, confirm, delete, ask_sweep, sweep, done, raised
    root_kind,     \* what the prompted root is on disk: "dir", "file" or "missing"
    fs_files,      \* regular files currently under the root
    fs_dirs,       \* directories currently under the root
    st,            \* per file: what p.stat() does
    pending,       \* regular files the second rglob has still to yield
    buckets,       \* defaultdict(list): bucket name -> list of Finding
    issues,        \* list of Finding
    junk_dirs,     \* list of Path
    typed_choice,  \* what the user typed at the menu
    choice,        \* the menu input, stripped
    typed_confirm, \* what the user typed at the confirmation prompt
    confirm,       \* the confirmation input, stripped
    delete_list,   \* list of Path
    di,            \* position of the deletion loop in delete_list
    deleted,
    failed,
    remove_empty,  \* stripped, lowercased answer to the empty-folder prompt
    sweep_list,    \* the sorted directory list of the sweep
    si,            \* position of the sweep loop in sweep_list
    removed_dirs,
    oplog,         \* the unlink/rmdir calls made so far, in order, with outcome
    cpc, cname, cout,        \* classify_file called on its own: position, argument, result
    hpc, hparts, hstat, hbucket, hout \* the scan loop body run on one file on its own

vars == <<pc, root_kind, fs_files, fs_dirs, st, pending, buckets, issues, junk_dirs,
          typed_choice, choice, typed_confirm, confirm, delete_list, di, deleted, failed, remove_empty,
          sweep_list, si, removed_dirs, oplog,
          cpc, cname, cout, hpc, hparts, hstat, hbucket, hout>>

mainVars == <<pc, root_kind, fs_files, fs_dirs, st, pending, buckets, issues, junk_dirs,
              typed_choice, choice, typed_confirm, confirm, delete_list, di, deleted, failed, remove_empty,
              sweep_list, si, removed_dirs, oplog>>
classifyVars == <<cpc, cname, cout>>
healthVars == <<hpc, hparts, hstat, hbucket, hout>>

(***************************************************************************)
(* Characters and str methods                                              *)
(***************************************************************************)
PrintableAscii == <<" ","!","\"","#","$","%","&","'","(",")","*","+",",","-",".","/","0","1","2","3","4","5","6","7","8","9",":",";","<","=",">","?","@","A","B","C","D","E","F","G","H","I","J","K","L","M","N","O","P","Q","R","S","T","U","V","W","X","Y","Z","[","\\","]","^","_","GRAVE","a","b","c","d","e","f","g","h","i","j","k","l","m","n","o","p","q","r","s","t","u","v","w","x","y","z","LBRACE","|","RBRACE","~">>

\* ord(ch)
Ord(c) ==
    CASE c = "TAB" -> 9
      [] c = "LF" -> 10
      [] c = "US" -> 31
      [] c = "U+00A0" -> 160
      [] c = "U+00C9" -> 201
      [] c = "U+00E9" -> 233
      [] c = "U+266A" -> 9834
      [] OTHER -> 31 + (CHOOSE i \in 1..Len(PrintableAscii) : PrintableAscii[i] = c)

\* str.lower() on one character
LowerChar(c) ==
    IF Ord(c) >= 65 /\ Ord(c) <= 90
    THEN PrintableAscii[Ord(c) + 32 - 31]
    ELSE IF c = "U+00C9" THEN "U+00E9" ELSE c

Lower(s) == [i \in 1..Len(s) |-> LowerChar(s[i])]

\* str.isspace() on one character, as str.strip() uses it
IsSpace(c) == Ord(c) \in (9..13) \cup (28..32) \cup {133, 160}

\* str.strip()
Strip(s) ==
    LET keep == {i \in 1..Len(s) : ~IsSpace(s[i])}
    IN  IF keep = {} THEN <<>>
        ELSE LET lo == CHOOSE i \in keep : \A j \in keep : i <= j
                 hi == CHOOSE i \in keep : \A j \in keep : i >= j
             IN  SubSeq(s, lo, hi)

\* str.startswith(prefix)
StartsWith(s, prefix) ==
    Len(s) >= Len(prefix) /\ SubSeq(s, 1, Len(prefix)) = prefix

\* sub in s
Contains(s, sub) ==
    \E i \in 0..(Len(s) - Len(sub)) : SubSeq(s, i + 1, i + Len(sub)) = sub

\* str.rfind("."), 1-based, 0 when absent
RFindDot(s) ==
    LET dots == {i \in 1..Len(s) : s[i] = "."}
    IN  IF dots = {} THEN 0 ELSE CHOOSE i \in dots : \A j \in dots : i >= j

\* PurePath.suffix
Suffix(name) ==
    LET i == RFindDot(name)
    IN  IF 1 < i /\ i < Len(name) THEN SubSeq(name, i, Len(name)) ELSE <<>>

\* PurePath.stem
Stem(name) ==
    LET i == RFindDot(name)
    IN  IF 1 < i /\ i < Len(name) THEN SubSeq(name, 1, i - 1) ELSE name

\* PurePath.name of a path given by its parts
Name(parts) == parts[Len(parts)]

\* PurePath.parent
Parent(parts) == SubSeq(parts, 1, Len(parts) - 1)

RECURSIVE Join(_)
\* str(rel): the parts joined by the separator
Join(parts) ==
    IF Len(parts) = 0 THEN <<>>
    ELSE IF Len(parts) = 1 THEN parts[1]
    ELSE parts[1] \o <<"/">> \o Join(Tail(parts))

\* str < str: lexicographic by code point
StrLess(a, b) ==
    \E k \in 1..(Len(b)) :
        /\ \A j \in 1..(k - 1) : j <= Len(a) /\ a[j] = b[j]
        /\ \/ k = Len(a) + 1
           \/ k <= Len(a) /\ Ord(a[k]) < Ord(b[k])

\* PurePath.__lt__: the parts compared as lists
PathLess(a, b) ==
    \E k \in 1..(Len(b)) :
        /\ \A j \in 1..(k - 1) : j <= Len(a) /\ a[j] = b[j]
        /\ \/ k = Len(a) + 1
           \/ k <= Len(a) /\ StrLess(a[k], b[k])

(***************************************************************************)
(* Configuration constants                                                 *)
(***************************************************************************)
AUDIO_EXTS == {<<".","f","l","a","c">>, <<".","m","p","3">>, <<".","w","a","v">>, <<".","a","a","c">>, <<".","m","4","a">>, <<".","o","g","g">>,
               <<".","o","p","u","s">>, <<".","w","m","a">>, <<".","a","p","e">>, <<".","a","i","f","f">>}

IMAGE_EXTS == {<<".","j","p","g">>, <<".","j","p","e","g">>, <<".","p","n","g">>, <<".","b","m","p">>, <<".","w","e","b","p">>}

JUNK_EXTS == {<<".","m","3","u">>, <<".","m","3","u","8">>, <<".","p","l","s">>, <<".","w","p","l">>, <<".","x","s","p","f">>,
              <<".","d","b">>, <<".","i","n","i">>, <<".","l","o","g">>, <<".","t","m","p">>, <<".","b","a","k">>,
              <<".","s","f","k">>, <<".","a","s","d">>, <<".","p","k","f">>, <<".","x","m","l">>, <<".","j","s","o","n">>}

POTENTIALLY_PROBLEMATIC_EXTS == {<<".","c","u","e">>, <<".","n","f","o">>, <<".","t","x","t">>, <<".","r","t","f">>, <<".","p","d","f">>, <<".","m","d">>}

JUNK_FILENAMES == {<<"t","h","u","m","b","s",".","d","b">>, <<"d","e","s","k","t","o","p",".","i","n","i">>, <<".","d","s","_","s","t","o","r","e">>}

JUNK_DIRNAMES == {<<".","s","p","o","t","l","i","g","h","t","-","v","1","0","0">>, <<".","t","r","a","s","h","e","s">>, <<"_","_","m","a","c","o","s","x">>}

APPLEDOUBLE_PREFIX == <<".","_">>

DEPTH_LIMIT == 6

REL_PATH_LEN_LIMIT == 180

MAX_FILENAME_LEN == 120

\* BAD_CHARS_PATTERN.search(s)
BAD_CHARS_PATTERN(s) ==
    \E i \in 1..Len(s) :
        \/ s[i] \in {"<", ">", ":", "\"", "/", "\\", "|", "?", "*"}
        \/ Ord(s[i]) <= 31

PREFERRED_COVER_NAMES == {<<"c","o","v","e","r">>, <<"f","o","l","d","e","r">>, <<"f","r","o","n","t">>, <<"a","l","b","u","m">>}

\* Finding(path, reason)
Finding(p, r) == [path |-> p, reason |-> r]

(***************************************************************************)
(* Detectors                                                               *)
(***************************************************************************)
has_non_ascii(s) == \E i \in 1..Len(s) : Ord(s[i]) > 127

\* a reason is the fixed text of the message and the value formatted into it
Reason(text, arg) == [text |-> text, arg |-> arg]

\* the extension rules tried before the name rules
classify_file_ExtFirst(name) ==
    LET name_lower == Lower(name)
        ext_lower == Lower(Suffix(name))
        stem == Lower(Stem(name))
    IN  IF ext_lower \in AUDIO_EXTS
        THEN <<"allowed", Reason("audio file", <<>>)>>
        ELSE IF ext_lower \in IMAGE_EXTS
        THEN IF /\ stem \notin PREFERRED_COVER_NAMES
                /\ ~Contains(stem, <<"c","o","v","e","r">>)
                /\ ~Contains(stem, <<"f","o","l","d","e","r">>)
             THEN <<"maybe", Reason("image file (artwork) but name not cover/folder/front", <<>>)>>
             ELSE <<"allowed", Reason("cover art image", <<>>)>>
        ELSE IF ext_lower \in JUNK_EXTS
        THEN <<"junk", Reason("junk sidecar/playlist/db/log", ext_lower)>>
        ELSE IF ext_lower \in POTENTIALLY_PROBLEMATIC_EXTS
        THEN <<"maybe", Reason("non-audio sidecar", ext_lower)>>
        ELSE IF StartsWith(name, APPLEDOUBLE_PREFIX)
        THEN <<"junk", Reason("macOS AppleDouble sidecar (._*)", <<>>)>>
        ELSE IF name_lower \in JUNK_FILENAMES
        THEN <<"junk", Reason("junk metadata file", name)>>
        ELSE <<"unknown", Reason("unknown file type",
                                 IF ext_lower # <<>> THEN ext_lower ELSE <<"n","o"," ","e","x","t","e","n","s","i","o","n">>)>>

classify_file(name) ==
    LET name_lower == Lower(name)
        ext_lower == Lower(Suffix(name))
        stem == Lower(Stem(name))
    IN  IF StartsWith(name, APPLEDOUBLE_PREFIX)
        THEN <<"junk", Reason("macOS AppleDouble sidecar (._*)", <<>>)>>
        ELSE IF name_lower \in JUNK_FILENAMES
        THEN <<"junk", Reason("junk metadata file", name)>>
        ELSE IF ext_lower \in AUDIO_EXTS
        THEN <<"allowed", Reason("audio file", <<>>)>>
        ELSE IF ext_lower \in IMAGE_EXTS
        THEN IF /\ stem \notin PREFERRED_COVER_NAMES
                /\ ~Contains(stem, <<"c","o","v","e","r">>)
                /\ ~Contains(stem, <<"f","o","l","d","e","r">>)
             THEN <<"maybe", Reason("image file (artwork) but name not cover/folder/front", <<>>)>>
             ELSE <<"allowed", Reason("cover art image", <<>>)>>
        ELSE IF ext_lower \in JUNK_EXTS
        THEN <<"junk", Reason("junk sidecar/playlist/db/log", ext_lower)>>
        ELSE IF ext_lower \in POTENTIALLY_PROBLEMATIC_EXTS
        THEN <<"maybe", Reason("non-audio sidecar", ext_lower)>>
        ELSE <<"unknown", Reason("unknown file type",
                                 IF ext_lower # <<>> THEN ext_lower ELSE <<"n","o"," ","e","x","t","e","n","s","i","o","n">>)>>

\* what p.stat() does: raise, or return a result with this st_size
Stat(raises, size) == [raises |-> raises, st_size |-> size]

\* a health reason: the fixed text and the two numbers formatted into it (0 when none)
Issue(text, observed, limit) == [text |-> text, observed |-> observed, limit |-> limit]

\* lines 103-105
DepthCheck(rel) ==
    IF Len(rel) > DEPTH_LIMIT
    THEN <<Issue("deep folder nesting", Len(rel), DEPTH_LIMIT)>> ELSE <<>>

\* the length limit taken as inclusive
RelLenCheck_Inclusive(rel) ==
    IF Len(Join(rel)) >= REL_PATH_LEN_LIMIT
    THEN <<Issue("long relative path", Len(Join(rel)), REL_PATH_LEN_LIMIT)>> ELSE <<>>

\* lines 107-108
RelLenCheck(rel) ==
    IF Len(Join(rel)) > REL_PATH_LEN_LIMIT
    THEN <<Issue("long relative path", Len(Join(rel)), REL_PATH_LEN_LIMIT)>> ELSE <<>>

\* lines 110-111
NameLenCheck(rel) ==
    IF Len(Name(rel)) > MAX_FILENAME_LEN
    THEN <<Issue("very long filename", Len(Name(rel)), MAX_FILENAME_LEN)>> ELSE <<>>

\* lines 113-114
NonAsciiCheck(rel) ==
    IF has_non_ascii(Join(rel))
    THEN <<Issue("contains non-ASCII characters", 0, 0)>> ELSE <<>>

\* lines 116-117
BadCharsCheck(rel) ==
    IF BAD_CHARS_PATTERN(Name(rel))
    THEN <<Issue("filename contains characters that can break devices", 0, 0)>> ELSE <<>>

\* lines 119-120
StripCheck(rel) ==
    IF Name(rel) # Strip(Name(rel))
    THEN <<Issue("filename has leading/trailing spaces", 0, 0)>> ELSE <<>>

\* lines 122-123
DoubleSpaceCheck(rel) ==
    IF Contains(Name(rel), <<" "," ">>)
    THEN <<Issue("filename contains double spaces", 0, 0)>> ELSE <<>>

\* a failing stat swallowed without a record
StatCheck_Silent(s) ==
    IF s.raises THEN <<>>
    ELSE IF s.st_size = 0 THEN <<Issue("zero-byte file", 0, 0)>> ELSE <<>>

\* lines 125-129
StatCheck(s) ==
    IF s.raises
    THEN <<Issue("could not stat file (permissions/corruption)", 0, 0)>>
    ELSE IF s.st_size = 0 THEN <<Issue("zero-byte file", 0, 0)>> ELSE <<>>

\* the checks as an elif chain: the first that matches ends the function
file_health_checks_FirstOnly(rel, s) ==
    LET all == <<DepthCheck(rel), RelLenCheck(rel), NameLenCheck(rel), NonAsciiCheck(rel),
                 BadCharsCheck(rel), StripCheck(rel), DoubleSpaceCheck(rel), StatCheck(s)>>
        hit == {i \in 1..8 : all[i] # <<>>}
    IN  IF hit = {} THEN <<>> ELSE all[CHOOSE i \in hit : \A j \in hit : i <= j]

\* rel is p.relative_to(root), given by its parts; s is what p.stat() does
file_health_checks(rel, s) ==
    DepthCheck(rel) \o RelLenCheck(rel) \o NameLenCheck(rel) \o NonAsciiCheck(rel)
    \o BadCharsCheck(rel) \o StripCheck(rel) \o DoubleSpaceCheck(rel) \o StatCheck(s)

(***************************************************************************)
(* classify_file called on its own                                         *)
(***************************************************************************)
ClassifyStems == {<<"c","o","v","e","r">>, <<"C","o","v","e","r">>, <<"F","O","L","D","E","R">>, <<"f","r","o","n","t">>, <<"a","l","b","u","m">>, <<"A","l","b","u","m","A","r","t">>,
                  <<"m","y","_","c","o","v","e","r","_","2">>, <<"f","o","l","d","e","r","s">>, <<"T","r","a","c","k"," ","0","1">>, <<".","_","c","o","v","e","r">>, <<".","_","T","r","a","c","k"," ","0","1">>,
                  <<"t","h","u","m","b","s">>, <<"T","h","u","m","b","s">>, <<"d","e","s","k","t","o","p">>, <<".","D","S","_","S","t","o","r","e">>, <<".","_","t","h","u","m","b","s">>,
                  <<"p","l","a","y","l","i","s","t">>, <<"n","o","t","e","s">>, <<"R","E","A","D","M","E">>, <<"a",".","b">>, <<>>}

ClassifyExts == {<<>>, <<".">>, <<".","j","p","g">>, <<".","J","P","G">>, <<".","p","n","g">>, <<".","w","e","b","p">>, <<".","f","l","a","c">>, <<".","M","p","3">>,
                 <<".","m","3","u">>, <<".","d","b">>, <<".","i","n","i">>, <<".","j","s","o","n">>, <<".","c","u","e">>, <<".","t","x","t">>, <<".","x","y","z">>}

\* the file names classify_file is called with; a Path has no empty name
ClassifyNames == {n \in {stem \o ext : stem \in ClassifyStems, ext \in ClassifyExts} :
                    n # <<>> /\ n # <<".">>}

NoResult == <<"none", Reason("", <<>>)>>

InitClassify ==
    /\ cpc = "call"
    /\ cname \in ClassifyNames
    /\ cout = NoResult

CallClassify ==
    /\ cpc = "call"
    /\ cout' = classify_file(cname)
    /\ cpc' = "ret"
    /\ UNCHANGED cname

(***************************************************************************)
(* The scan loop body (lines 177-181) run on one file on its own           *)
(***************************************************************************)
\* deepest relative path tried
MaxDepth == 8

Rep(c, n) == [i \in 1..n |-> c]

\* a file name of n characters
Pad(n) == Rep("a", n - 4) \o <<".","m","p","3">>

\* a chain of k directories
DirChain(k) == [i \in 1..k |-> IF i = 1 THEN <<"A","r","t","i","s","t">> ELSE <<"A","l","b","u","m">>]

LongDir == Rep("d", 60)

HealthNames == {<<"T","r","a","c","k"," ","0","1",".","f","l","a","c">>, <<" ","l","e","a","d",".","m","p","3">>, <<"t","r","a","i","l",".","m","p","3"," ">>, <<"a"," "," ","b",".","m","p","3">>,
                <<"c","a","f","U+00E9",".","m","p","3">>, <<"w","h","a","t","?",".","m","p","3">>, <<"t","a","b","TAB","x",".","m","p","3">>, <<"A","C",":","D","C",".","m","p","3">>,
                <<"x",".","m","p","3","U+00A0">>, <<" ","U+266A"," "," ","<","3",".","t","x","t"," ">>, <<"R","E","A","D","M","E">>, <<".","_","a"," "," ","b",".","d","b">>, <<"F","o","l","d","e","r",".","J","P","G">>,
                Pad(MAX_FILENAME_LEN - 1), Pad(MAX_FILENAME_LEN), Pad(MAX_FILENAME_LEN + 1),
                Pad(MAX_FILENAME_LEN + 10)}

HealthPaths ==
    {DirChain(k) \o <<n>> : k \in 0..(MaxDepth - 1), n \in HealthNames}
    \cup {<<LongDir, LongDir, Pad(n)>> : n \in {REL_PATH_LEN_LIMIT - 123, REL_PATH_LEN_LIMIT - 122,
                                                 REL_PATH_LEN_LIMIT - 121}}
    \cup {<<<<"B","e","y","o","n","c","U+00E9">>, <<"T","r","a","c","k"," ","0","1",".","f","l","a","c">>>>}

StatOutcomes == {Stat(FALSE, 0), Stat(FALSE, 4096), Stat(TRUE, 0)}

InitHealth ==
    /\ hpc = "call"
    /\ hparts \in HealthPaths
    /\ hstat \in StatOutcomes
    /\ hbucket = "none"
    /\ hout = <<>>

CallHealth ==
    /\ hpc = "call"
    /\ hbucket' = classify_file(Name(hparts))[1]
    /\ hout' = file_health_checks(hparts, hstat)
    /\ hpc' = "ret"
    /\ UNCHANGED <<hparts, hstat>>

(***************************************************************************)
(* main                                                                    *)
(***************************************************************************)
\* most regular files under the root
MaxFiles == 3

\* most directories under the root that hold no file
MaxExtraDirs == 1

\* the regular files a tree is drawn from: relative path and what stat() does on it
FileCatalogue == {
    [path |-> <<<<"A","r","t","i","s","t">>, <<"A","l","b","u","m">>, <<"e","m","p","t","y",".","f","l","a","c">>>>, stat |-> Stat(FALSE, 0)],
    [path |-> <<<<"A","r","t","i","s","t">>, <<"A","l","b","u","m">>, <<"T","h","u","m","b","s",".","d","b">>>>, stat |-> Stat(FALSE, 4096)],
    [path |-> <<<<"_","_","M","A","C","O","S","X">>, <<".","_","c","o","v","e","r",".","j","p","g">>>>, stat |-> Stat(TRUE, 0)],
    [path |-> <<<<"A","r","t","i","s","t">>, <<" ","c","a","f","U+00E9"," "," ","x","?",".","t","x","t">>>>, stat |-> Stat(FALSE, 0)],
    [path |-> <<<<"R","E","A","D","M","E">>>>, stat |-> Stat(FALSE, 4096)] }

\* directories without files a tree may also hold
ExtraDirCatalogue == { <<<<"E","m","p","t","y">>, <<"_","_","M","a","c","O","S","X">>>>, <<<<"A","r","t","i","s","t">>, <<"S","c","a","n","s">>>> }

\* the proper ancestors of a path below the root
Ancestors(p) == {SubSeq(p, 1, k) : k \in 1..(Len(p) - 1)}

ChoiceInputs == {<<"1">>, <<" ","2"," ">>, <<"3">>, <<"4">>, <<"7">>}

ConfirmInputs == {<<"D","E","L","E","T","E">>, <<" ","D","E","L","E","T","E"," ">>, <<"d","e","l","e","t","e">>}

SweepInputs == {<<" ","Y">>, <<"n">>}

\* buckets[k] read without creating the key
Get(b, k) == IF k \in DOMAIN b THEN b[k] ELSE <<>>

\* the list replaced instead of extended
BucketAppend_Overwrite(b, k, f) ==
    [x \in DOMAIN b \cup {k} |-> IF x = k THEN <<f>> ELSE b[x]]

\* buckets[k].append(f) on a defaultdict(list)
BucketAppend(b, k, f) ==
    [x \in DOMAIN b \cup {k} |-> IF x = k THEN Append(Get(b, k), f) ELSE b[x]]

\* buckets[k] read for each k of ks, which creates the missing keys
BucketTouch(b, ks) == [x \in DOMAIN b \cup ks |-> Get(b, x)]

\* [f.path for f in findings]
Paths(findings) == [i \in 1..Len(findings) |-> findings[i].path]

\* every ordering of a finite set
Perms(set) ==
    {s \in [1..Cardinality(set) -> set] : \A i, j \in 1..Cardinality(set) : s[i] = s[j] => i = j}

RECURSIVE SortedReverse_Ascending(_)
\* the sort without reverse=True
SortedReverse_Ascending(set) ==
    IF set = {} THEN <<>>
    ELSE LET m == CHOOSE x \in set : \A y \in set \ {x} : PathLess(x, y)
         IN  <<m>> \o SortedReverse_Ascending(set \ {m})

RECURSIVE SortedReverse(_)
\* sorted(set of Path, reverse=True)
SortedReverse(set) ==
    IF set = {} THEN <<>>
    ELSE LET m == CHOOSE x \in set : \A y \in set \ {x} : PathLess(y, x)
         IN  <<m>> \o SortedReverse(set \ {m})

\* choice 3 extending with unknown before maybe
DeletionPlan_UnknownFirst(b, c) ==
    IF c \notin {<<"1">>, <<"2">>, <<"3">>, <<"4">>} THEN <<>>
    ELSE IF c = <<"4">> THEN <<>>
    ELSE Paths(Get(b, "junk"))
         \o (IF c = <<"3">> THEN Paths(Get(b, "unknown")) ELSE <<>>)
         \o (IF c \in {<<"2">>, <<"3">>} THEN Paths(Get(b, "maybe")) ELSE <<>>)

\* choice 2 taking the maybe bucket alone
DeletionPlan_MaybeOnly(b, c) ==
    IF c \notin {<<"1">>, <<"2">>, <<"3">>, <<"4">>} THEN <<>>
    ELSE IF c = <<"4">> THEN <<>>
    ELSE (IF c # <<"2">> THEN Paths(Get(b, "junk")) ELSE <<>>)
         \o (IF c \in {<<"2">>, <<"3">>} THEN Paths(Get(b, "maybe")) ELSE <<>>)
         \o (IF c = <<"3">> THEN Paths(Get(b, "unknown")) ELSE <<>>)

\* the deletion list main builds for a stripped menu choice; none is built for the others
DeletionPlan(b, c) ==
    IF c \notin {<<"1">>, <<"2">>, <<"3">>, <<"4">>} THEN <<>>
    ELSE IF c = <<"4">> THEN <<>>
    ELSE Paths(Get(b, "junk"))
         \o (IF c \in {<<"2">>, <<"3">>} THEN Paths(Get(b, "maybe")) ELSE <<>>)
         \o (IF c = <<"3">> THEN Paths(Get(b, "unknown")) ELSE <<>>)

\* d.iterdir() yields something
HasEntries(d) == \E e \in fs_files \cup fs_dirs : Len(e) > 0 /\ Parent(e) = d

Init ==
    /\ pc = "prompt"
    /\ root_kind \in {"dir", "file", "missing"}
    /\ \E cat \in SUBSET FileCatalogue, extra \in SUBSET ExtraDirCatalogue :
        /\ Cardinality(cat) <= MaxFiles
        /\ Cardinality(extra) <= MaxExtraDirs
        /\ root_kind # "dir" => cat = {} /\ extra = {}
        /\ fs_files = {c.path : c \in cat}
        /\ fs_dirs = UNION {Ancestors(c.path) : c \in cat}
                     \cup UNION {Ancestors(d) \cup {d} : d \in extra}
        /\ st = [p \in {c.path : c \in cat} |-> (CHOOSE c \in cat : c.path = p).stat]
    /\ pending = {}
    /\ buckets = <<>>
    /\ issues = <<>>
    /\ junk_dirs = <<>>
    /\ typed_choice = <<>>
    /\ choice = <<>>
    /\ typed_confirm = <<>>
    /\ confirm = <<>>
    /\ delete_list = <<>>
    /\ di = 0
    /\ deleted = 0
    /\ failed = 0
    /\ remove_empty = <<>>
    /\ sweep_list = <<>>
    /\ si = 0
    /\ removed_dirs = 0
    /\ oplog = <<>>
    /\ cpc = "idle" /\ cname = <<>> /\ cout = NoResult
    /\ hpc = "idle" /\ hparts = <<>> /\ hstat = Stat(FALSE, 0) /\ hbucket = "none" /\ hout = <<>>

\* lines 158-163: the root is validated
Prompt ==
    /\ pc = "prompt"
    /\ pc' = IF root_kind # "dir" THEN "done" ELSE "scan_dirs"
    /\ UNCHANGED <<root_kind, fs_files, fs_dirs, st, pending, buckets, issues, junk_dirs,
                   typed_choice, choice, typed_confirm, confirm, delete_list, di, deleted,
                   failed, remove_empty, sweep_list, si, removed_dirs, oplog>>

\* lines 169-171: the first walk records the junk directories, in the order rglob yields them
ScanDirs ==
    /\ pc = "scan_dirs"
    /\ \E order \in Perms({d \in fs_dirs : Lower(Name(d)) \in JUNK_DIRNAMES}) :
         junk_dirs' = order
    /\ pending' = fs_files
    /\ pc' = "scan"
    /\ UNCHANGED <<root_kind, fs_files, fs_dirs, st, buckets, issues,
                   typed_choice, choice, typed_confirm, confirm, delete_list, di, deleted,
                   failed, remove_empty, sweep_list, si, removed_dirs, oplog>>

\* lines 173-181: the second walk comes to its next regular file; the entries
\* that are not regular files hit the continue of line 175 and change nothing
ScanFile ==
    /\ pc = "scan"
    /\ \E p \in pending :
         LET c == classify_file(Name(p))
             rs == file_health_checks(p, st[p])
         IN  /\ buckets' = BucketAppend(buckets, c[1], Finding(p, c[2]))
             /\ issues' = issues \o [i \in 1..Len(rs) |-> Finding(p, rs[i])]
             /\ pending' = pending \ {p}
    /\ UNCHANGED <<pc, root_kind, fs_files, fs_dirs, st, junk_dirs,
                   typed_choice, choice, typed_confirm, confirm, delete_list, di, deleted,
                   failed, remove_empty, sweep_list, si, removed_dirs, oplog>>

\* lines 183-214: the walk is over; the summary reads the four buckets
Summary ==
    /\ pc = "scan"
    /\ pending = {}
    /\ buckets' = BucketTouch(buckets, {"allowed", "junk", "maybe", "unknown"})
    /\ pc' = "menu"
    /\ UNCHANGED <<root_kind, fs_files, fs_dirs, st, pending, issues, junk_dirs,
                   typed_choice, choice, typed_confirm, confirm, delete_list, di, deleted,
                   failed, remove_empty, sweep_list, si, removed_dirs, oplog>>

\* lines 215-233: the menu choice and the deletion list
Menu ==
    /\ pc = "menu"
    /\ \E raw \in ChoiceInputs :
         /\ typed_choice' = raw
         /\ choice' = Strip(raw)
         /\ delete_list' = DeletionPlan(buckets, Strip(raw))
         /\ pc' = IF Strip(raw) \notin {<<"1">>, <<"2">>, <<"3">>, <<"4">>} THEN "done"
                  ELSE IF Strip(raw) = <<"4">> THEN "done"
                  ELSE IF DeletionPlan(buckets, Strip(raw)) = <<>> THEN "done"
                  ELSE "confirm"
    /\ UNCHANGED <<root_kind, fs_files, fs_dirs, st, pending, buckets, issues, junk_dirs,
                   typed_confirm, confirm, di, deleted,
                   failed, remove_empty, sweep_list, si, removed_dirs, oplog>>

\* the confirmation read but not compared
Confirm_NoCheck ==
    /\ pc = "confirm"
    /\ \E raw \in ConfirmInputs :
         /\ typed_confirm' = raw
         /\ confirm' = Strip(raw)
    /\ pc' = "delete"
    /\ di' = 1
    /\ deleted' = 0
    /\ failed' = 0
    /\ UNCHANGED <<root_kind, fs_files, fs_dirs, st, pending, buckets, issues, junk_dirs,
                   typed_choice, choice, delete_list,
                   remove_empty, sweep_list, si, removed_dirs, oplog>>

\* lines 235-242: the confirmation
Confirm ==
    /\ pc = "confirm"
    /\ \E raw \in ConfirmInputs :
         /\ typed_confirm' = raw
         /\ confirm' = Strip(raw)
         /\ pc' = IF Strip(raw) # <<"D","E","L","E","T","E">> THEN "done" ELSE "delete"
         /\ di' = IF Strip(raw) # <<"D","E","L","E","T","E">> THEN di ELSE 1
    /\ deleted' = 0
    /\ failed' = 0
    /\ UNCHANGED <<root_kind, fs_files, fs_dirs, st, pending, buckets, issues, junk_dirs,
                   typed_choice, choice, delete_list,
                   remove_empty, sweep_list, si, removed_dirs, oplog>>

\* the deletion loop left at the first unlink that raises
Unlink_AbortOnError ==
    /\ pc = "delete"
    /\ di <= Len(delete_list)
    /\ \E ok \in BOOLEAN :
         /\ ok => delete_list[di] \in fs_files
         /\ fs_files' = IF ok THEN fs_files \ {delete_list[di]} ELSE fs_files
         /\ deleted' = IF ok THEN deleted + 1 ELSE deleted
         /\ failed' = IF ok THEN failed ELSE failed + 1
         /\ oplog' = Append(oplog, [op |-> "unlink", path |-> delete_list[di], ok |-> ok])
         /\ di' = IF ok THEN di + 1 ELSE Len(delete_list) + 1
    /\ UNCHANGED <<pc, root_kind, fs_dirs, st, pending, buckets, issues, junk_dirs,
                   typed_choice, choice, typed_confirm, confirm, delete_list,
                   remove_empty, sweep_list, si, removed_dirs>>

\* lines 243-249: one round of the deletion loop; unlink succeeds or raises
Unlink ==
    /\ pc = "delete"
    /\ di <= Len(delete_list)
    /\ \E ok \in BOOLEAN :
         /\ ok => delete_list[di] \in fs_files
         /\ fs_files' = IF ok THEN fs_files \ {delete_list[di]} ELSE fs_files
         /\ deleted' = IF ok THEN deleted + 1 ELSE deleted
         /\ failed' = IF ok THEN failed ELSE failed + 1
         /\ oplog' = Append(oplog, [op |-> "unlink", path |-> delete_list[di], ok |-> ok])
    /\ di' = di + 1
    /\ UNCHANGED <<pc, root_kind, fs_dirs, st, pending, buckets, issues, junk_dirs,
                   typed_choice, choice, typed_confirm, confirm, delete_list,
                   remove_empty, sweep_list, si, removed_dirs>>

\* lines 251-257: the deletion loop is over; the empty-folder prompt
AskSweep ==
    /\ pc = "delete"
    /\ di > Len(delete_list)
    /\ \E raw \in SweepInputs :
         /\ remove_empty' = Lower(Strip(raw))
         /\ IF Lower(Strip(raw)) = <<"y">>
            THEN /\ sweep_list' = SortedReverse(fs_dirs)
                 /\ si' = 1
                 /\ pc' = "sweep"
            ELSE /\ UNCHANGED <<sweep_list, si>>
                 /\ pc' = "done"
    /\ removed_dirs' = 0
    /\ UNCHANGED <<root_kind, fs_files, fs_dirs, st, pending, buckets, issues, junk_dirs,
                   typed_choice, choice, typed_confirm, confirm, delete_list, di, deleted,
                   failed, oplog>>

\* lines 257-265: one round of the sweep
SweepStep ==
    /\ pc = "sweep"
    /\ si <= Len(sweep_list)
    /\ LET d == sweep_list[si]
       IN  \/ \* iterdir raises something other than StopIteration: nothing catches it
              /\ pc' = "raised"
              /\ UNCHANGED <<fs_dirs, si, removed_dirs, oplog>>
           \/ \* next() returns an entry
              /\ HasEntries(d)
              /\ si' = si + 1
              /\ UNCHANGED <<pc, fs_dirs, removed_dirs, oplog>>
           \/ \* StopIteration: rmdir succeeds or raises
              /\ ~HasEntries(d)
              /\ \E ok \in BOOLEAN :
                   /\ fs_dirs' = IF ok THEN fs_dirs \ {d} ELSE fs_dirs
                   /\ removed_dirs' = IF ok THEN removed_dirs + 1 ELSE removed_dirs
                   /\ oplog' = Append(oplog, [op |-> "rmdir", path |-> d, ok |-> ok])
              /\ si' = si + 1
              /\ UNCHANGED pc
    /\ UNCHANGED <<root_kind, fs_files, st, pending, buckets, issues, junk_dirs,
                   typed_choice, choice, typed_confirm, confirm, delete_list, di, deleted,
                   failed, remove_empty, sweep_list>>

\* line 266: the sweep is over
SweepDone ==
    /\ pc = "sweep"
    /\ si > Len(sweep_list)
    /\ pc' = "done"
    /\ UNCHANGED <<root_kind, fs_files, fs_dirs, st, pending, buckets, issues, junk_dirs,
                   typed_choice, choice, typed_confirm, confirm, delete_list, di, deleted,
                   failed, remove_empty, sweep_list, si, removed_dirs, oplog>>

Next ==
    \/ (Prompt /\ UNCHANGED <<classifyVars, healthVars>>)
    \/ (ScanDirs /\ UNCHANGED <<classifyVars, healthVars>>)
    \/ (ScanFile /\ UNCHANGED <<classifyVars, healthVars>>)
    \/ (Summary /\ UNCHANGED <<classifyVars, healthVars>>)
    \/ (Menu /\ UNCHANGED <<classifyVars, healthVars>>)
    \/ (Confirm /\ UNCHANGED <<classifyVars, healthVars>>)
    \/ (Unlink /\ UNCHANGED <<classifyVars, healthVars>>)
    \/ (AskSweep /\ UNCHANGED <<classifyVars, healthVars>>)
    \/ (SweepStep /\ UNCHANGED <<classifyVars, healthVars>>)
    \/ (SweepDone /\ UNCHANGED <<classifyVars, healthVars>>)

Spec == Init /\ [][Next]_vars

\* the main variables while a detector is called on its own
MainIdle ==
    /\ pc = "idle" /\ root_kind = "dir" /\ fs_files = {} /\ fs_dirs = {} /\ st = <<>>
    /\ pending = {} /\ buckets = <<>> /\ issues = <<>> /\ junk_dirs = <<>>
    /\ typed_choice = <<>> /\ choice = <<>> /\ typed_confirm = <<>> /\ confirm = <<>>
    /\ delete_list = <<>> /\ di = 0 /\ deleted = 0 /\ failed = 0 /\ remove_empty = <<>>
    /\ sweep_list = <<>> /\ si = 0 /\ removed_dirs = 0 /\ oplog = <<>>

InitC ==
    /\ InitClassify
    /\ MainIdle
    /\ hpc = "idle" /\ hparts = <<>> /\ hstat = Stat(FALSE, 0) /\ hbucket = "none" /\ hout = <<>>

NextClassify == CallClassify /\ UNCHANGED <<mainVars, healthVars>>

SpecClassify == InitC /\ [][NextClassify]_vars

InitH ==
    /\ InitHealth
    /\ MainIdle
    /\ cpc = "idle" /\ cname = <<>> /\ cout = NoResult

NextHealth == CallHealth /\ UNCHANGED <<mainVars, classifyVars>>

SpecHealth == InitH /\ [][NextHealth]_vars

(***************************************************************************)
(* Properties of classify_file                                             *)
(***************************************************************************)
\* rule i of the documented chain matches the file name n
RuleMatches(i, n) ==
    CASE i = 1 -> StartsWith(n, <<".","_">>)
      [] i = 2 -> Lower(n) \in JUNK_FILENAMES
      [] i = 3 -> Lower(Suffix(n)) \in AUDIO_EXTS
      [] i = 4 -> Lower(Suffix(n)) \in IMAGE_EXTS
      [] i = 5 -> Lower(Suffix(n)) \in JUNK_EXTS
      [] i = 6 -> Lower(Suffix(n)) \in POTENTIALLY_PROBLEMATIC_EXTS
      [] i = 7 -> TRUE

FirstRule(n) == CHOOSE i \in 1..7 : RuleMatches(i, n) /\ \A j \in 1..(i - 1) : ~RuleMatches(j, n)

IsCoverName(n) ==
    \/ Lower(Stem(n)) \in PREFERRED_COVER_NAMES
    \/ Contains(Lower(Stem(n)), <<"c","o","v","e","r">>)
    \/ Contains(Lower(Stem(n)), <<"f","o","l","d","e","r">>)

RuleBucket(i, n) ==
    CASE i \in {1, 2, 5} -> "junk"
      [] i = 3 -> "allowed"
      [] i = 4 -> IF IsCoverName(n) THEN "allowed" ELSE "maybe"
      [] i = 6 -> "maybe"
      [] i = 7 -> "unknown"

RuleText(i, n) ==
    CASE i = 1 -> "macOS AppleDouble sidecar (._*)"
      [] i = 2 -> "junk metadata file"
      [] i = 3 -> "audio file"
      [] i = 4 -> IF IsCoverName(n) THEN "cover art image"
                  ELSE "image file (artwork) but name not cover/folder/front"
      [] i = 5 -> "junk sidecar/playlist/db/log"
      [] i = 6 -> "non-audio sidecar"
      [] i = 7 -> "unknown file type"

\* C4: classify_file is a first-match chain in the documented order: the bucket and
\* the reason are those of the earliest rule the name matches; "._cover.jpg" is junk
\* by the prefix rule, "thumbs.db" junk by the filename rule, "AlbumArt.png" maybe.
C4_FirstMatchChain ==
    cpc = "ret" =>
        /\ cout[1] = RuleBucket(FirstRule(cname), cname)
        /\ cout[2].text = RuleText(FirstRule(cname), cname)
        /\ cname = <<".","_","c","o","v","e","r",".","j","p","g">> => cout = <<"junk", Reason("macOS AppleDouble sidecar (._*)", <<>>)>>
        /\ cname = <<"t","h","u","m","b","s",".","d","b">> => cout = <<"junk", Reason("junk metadata file", <<"t","h","u","m","b","s",".","d","b">>)>>
        /\ cname = <<"A","l","b","u","m","A","r","t",".","p","n","g">> => cout[1] = "maybe"

C4_Witness ==
    /\ cpc = "ret"
    /\ cname = <<".","_","c","o","v","e","r",".","j","p","g">>
    /\ RuleMatches(4, cname)
    /\ cout[1] = "junk"

(***************************************************************************)
(* Properties of file_health_checks                                        *)
(***************************************************************************)
\* [r.text for r in rs]
Texts(rs) == [i \in 1..Len(rs) |-> rs[i].text]

\* how many reasons of rs carry this text
CountText(rs, text) == Cardinality({i \in 1..Len(rs) : rs[i].text = text})

\* the checks in the documented order; the last two exclude each other
CheckOrder == <<"deep folder nesting", "long relative path", "very long filename",
                "contains non-ASCII characters",
                "filename contains characters that can break devices",
                "filename has leading/trailing spaces", "filename contains double spaces",
                "zero-byte file", "could not stat file (permissions/corruption)">>

\* the condition of each check, for the relative path rel and the stat outcome s
Applies(text, rel, s) ==
    CASE text = "deep folder nesting" -> Len(rel) > DEPTH_LIMIT
      [] text = "long relative path" -> Len(Join(rel)) > REL_PATH_LEN_LIMIT
      [] text = "very long filename" -> Len(Name(rel)) > MAX_FILENAME_LEN
      [] text = "contains non-ASCII characters" -> \E i \in 1..Len(Join(rel)) : Ord(Join(rel)[i]) > 127
      [] text = "filename contains characters that can break devices" ->
            \E i \in 1..Len(Name(rel)) :
                Name(rel)[i] \in {"<", ">", ":", "\"", "/", "\\", "|", "?", "*"} \/ Ord(Name(rel)[i]) < 32
      [] text = "filename has leading/trailing spaces" ->
            IsSpace(Name(rel)[1]) \/ IsSpace(Name(rel)[Len(Name(rel))])
      [] text = "filename contains double spaces" ->
            \E i \in 1..(Len(Name(rel)) - 1) : Name(rel)[i] = " " /\ Name(rel)[i + 1] = " "
      [] text = "zero-byte file" -> ~s.raises /\ s.st_size = 0
      [] text = "could not stat file (permissions/corruption)" -> s.raises

ExpectedTexts(rel, s) == SelectSeq(CheckOrder, LAMBDA t : Applies(t, rel, s))

\* C7: health issues are independent of the category: whatever bucket the file
\* went to, every check whose condition holds is reported, also after an earlier
\* one matched, in the fixed order; an allowed file of size zero gets "zero-byte file".
C7_ChecksIndependent ==
    hpc = "ret" =>
        /\ Texts(hout) = ExpectedTexts(hparts, hstat)
        /\ (hbucket = "allowed" /\ ~hstat.raises /\ hstat.st_size = 0)
              => CountText(hout, "zero-byte file") = 1

C7_Witness ==
    /\ hpc = "ret"
    /\ hbucket = "allowed"
    /\ ~hstat.raises /\ hstat.st_size = 0
    /\ Len(hout) >= 3
    /\ hout[Len(hout)].text = "zero-byte file"

\* C9: the limits are strict: a relative path of exactly REL_PATH_LEN_LIMIT
\* characters gives no long-path issue and one more character gives exactly one;
\* a filename of exactly MAX_FILENAME_LEN gives no long-filename issue and a longer
\* one exactly one, carrying its length and the limit; depth likewise; and
\* Artist/Album/Track 01.flac, non-empty, has no issue at all.
C9_StrictLimits ==
    hpc = "ret" =>
        /\ Len(Join(hparts)) <= REL_PATH_LEN_LIMIT => CountText(hout, "long relative path") = 0
        /\ Len(Join(hparts)) > REL_PATH_LEN_LIMIT =>
              /\ CountText(hout, "long relative path") = 1
              /\ \E i \in 1..Len(hout) :
                    hout[i] = Issue("long relative path", Len(Join(hparts)), REL_PATH_LEN_LIMIT)
        /\ Len(Name(hparts)) <= MAX_FILENAME_LEN => CountText(hout, "very long filename") = 0
        /\ Len(Name(hparts)) > MAX_FILENAME_LEN =>
              /\ CountText(hout, "very long filename") = 1
              /\ \E i \in 1..Len(hout) :
                    hout[i] = Issue("very long filename", Len(Name(hparts)), MAX_FILENAME_LEN)
        /\ Len(hparts) <= DEPTH_LIMIT => CountText(hout, "deep folder nesting") = 0
        /\ Len(hparts) > DEPTH_LIMIT => CountText(hout, "deep folder nesting") = 1
        /\ (hparts = <<<<"A","r","t","i","s","t">>, <<"A","l","b","u","m">>, <<"T","r","a","c","k"," ","0","1",".","f","l","a","c">>>> /\ ~hstat.raises /\ hstat.st_size > 0)
              => hout = <<>>

C9_Witness ==
    /\ hpc = "ret"
    /\ Len(Join(hparts)) = REL_PATH_LEN_LIMIT + 1
    /\ CountText(hout, "long relative path") = 1
    /\ Len(Name(hparts)) <= MAX_FILENAME_LEN

(***************************************************************************)
(* Properties of main                                                      *)
(***************************************************************************)
Range(seq) == {seq[i] : i \in 1..Len(seq)}

BucketNames == {"allowed", "junk", "maybe", "unknown"}

\* the second walk has yielded everything
LoopDone == (pc = "scan" /\ pending = {}) \/ pc = "menu"

\* the menu has been answered
MenuAnswered == pc \in {"confirm", "delete", "sweep", "raised"} \/ (pc = "done" /\ typed_choice # <<>>)

\* e lies strictly below the directory d
IsUnder(e, d) == Len(e) > Len(d) /\ SubSeq(e, 1, Len(d)) = d

\* the successful and failed unlink calls, in order
Unlinks == SelectSeq(oplog, LAMBDA e : e.op = "unlink")

\* the reasons recorded in issues for the file f, in order
IssuesOf(f) ==
    LET fs == SelectSeq(issues, LAMBDA x : x.path = f)
    IN  [i \in 1..Len(fs) |-> fs[i].reason]

\* C1: the deletion list is junk for choice 1, junk then maybe for 2, junk then
\* maybe then unknown for 3, and nothing for 4; no allowed path is in it, and two
\* files of one bucket are both in it or both out of it, whatever their health issues.
C1_DeletionListByLevel ==
    MenuAnswered =>
        LET J == Paths(Get(buckets, "junk"))
            M == Paths(Get(buckets, "maybe"))
            U == Paths(Get(buckets, "unknown"))
            A == Paths(Get(buckets, "allowed"))
        IN  /\ choice = <<"1">> => delete_list = J
            /\ choice = <<"2">> => delete_list = J \o M
            /\ choice = <<"3">> => delete_list = J \o M \o U
            /\ choice = <<"4">> => delete_list = <<>> /\ oplog = <<>>
            /\ Range(delete_list) \cap Range(A) = {}
            /\ \A k \in DOMAIN buckets : \A i, j \in 1..Len(buckets[k]) :
                  (buckets[k][i].path \in Range(delete_list))
                      <=> (buckets[k][j].path \in Range(delete_list))

C1_Witness ==
    /\ pc = "confirm"
    /\ choice = <<"3">>
    /\ Get(buckets, "junk") # <<>> /\ Get(buckets, "maybe") # <<>> /\ Get(buckets, "unknown") # <<>>
    /\ Len(delete_list) >= 3

\* what the user typed allows deleting: a listed choice and the word DELETE
Authorised(c, t) == root_kind = "dir" /\ c \in {<<"1">>, <<"2">>, <<"3">>} /\ t = <<"D","E","L","E","T","E">>

\* C2 as stated: something is unlinked or removed, or the run raises, only when the
\* typed choice is 1, 2 or 3 and the typed confirmation is exactly DELETE.
C2_Original ==
    (oplog # <<>> \/ pc \in {"delete", "sweep", "raised"})
        => Authorised(typed_choice, typed_confirm)

\* C2: unlink and rmdir are called, and the run can raise, only when the root is a
\* directory, the deletion list is not empty, and the typed choice and confirmation,
\* with surrounding whitespace stripped, are 1, 2 or 3 and DELETE.
C2_OnlyAfterConfirmation ==
    (oplog # <<>> \/ pc \in {"delete", "sweep", "raised"})
        => /\ Authorised(Strip(typed_choice), Strip(typed_confirm))
           /\ delete_list # <<>>

C2_Witness ==
    /\ \E i \in 1..Len(oplog) : oplog[i].op = "unlink" /\ oplog[i].ok
    /\ \E i \in 1..Len(oplog) : oplog[i].op = "rmdir" /\ oplog[i].ok
    /\ typed_confirm = <<" ","D","E","L","E","T","E"," ">>

\* where the Finding of the file f sits in the buckets
Occurrences(f) ==
    {x \in UNION {{<<k, i>> : i \in 1..Len(buckets[k])} : k \in DOMAIN buckets} :
        buckets[x[1]][x[2]].path = f}

\* C3: when the scan loop is over every regular file under the root has one
\* Finding, in one of the four buckets, the one classify_file names; nothing else
\* has a Finding and no other bucket exists.
C3_OneBucketPerFile ==
    /\ DOMAIN buckets \subseteq BucketNames
    /\ LoopDone =>
        /\ \A f \in fs_files :
              /\ Cardinality(Occurrences(f)) = 1
              /\ \A x \in Occurrences(f) : x[1] = classify_file(Name(f))[1]
        /\ \A k \in DOMAIN buckets : Range(Paths(buckets[k])) \subseteq fs_files

C3_Witness ==
    /\ pc = "menu"
    /\ Cardinality(fs_files) >= 3
    /\ Len(buckets["junk"]) >= 2
    /\ Len(buckets["allowed"]) >= 1

\* C5: junk-only deletes a subset of junk-and-maybe, which deletes a subset of
\* junk-maybe-and-unknown, and report-only deletes nothing.
C5_Monotone ==
    (LoopDone \/ MenuAnswered) =>
        /\ Range(DeletionPlan(buckets, <<"1">>)) \subseteq Range(DeletionPlan(buckets, <<"2">>))
        /\ Range(DeletionPlan(buckets, <<"2">>)) \subseteq Range(DeletionPlan(buckets, <<"3">>))
        /\ DeletionPlan(buckets, <<"4">>) = <<>>

C5_Witness ==
    /\ pc = "menu"
    /\ DeletionPlan(buckets, <<"1">>) # <<>>
    /\ Len(DeletionPlan(buckets, <<"1">>)) < Len(DeletionPlan(buckets, <<"2">>))
    /\ Len(DeletionPlan(buckets, <<"2">>)) < Len(DeletionPlan(buckets, <<"3">>))

\* the deletion loop has run to its end
DeleteLoopOver ==
    \/ pc = "delete" /\ di > Len(delete_list)
    \/ pc \in {"sweep", "raised"}
    \/ pc = "done" /\ confirm = <<"D","E","L","E","T","E">>

\* C6: the deletion loop calls unlink on every path of the list once, in list
\* order, also after a failure; at its end deleted + failed is the length of the
\* list and deleted is the number of unlinks that succeeded.
C6_EveryPathAttempted ==
    /\ pc = "delete" =>
        /\ Paths(Unlinks) = SubSeq(delete_list, 1, di - 1)
        /\ deleted + failed = di - 1
    /\ DeleteLoopOver =>
        /\ Paths(Unlinks) = delete_list
        /\ deleted + failed = Len(delete_list)
        /\ deleted = Cardinality({i \in 1..Len(Unlinks) : Unlinks[i].ok})
        /\ failed = Cardinality({i \in 1..Len(Unlinks) : ~Unlinks[i].ok})
        /\ \A i \in 1..Len(Unlinks) : Unlinks[i].ok => Unlinks[i].path \notin fs_files

C6_Witness ==
    /\ DeleteLoopOver
    /\ \E i, j \in 1..Len(Unlinks) : i < j /\ ~Unlinks[i].ok /\ Unlinks[j].ok
    /\ deleted >= 1 /\ failed >= 1

\* C8: a file whose stat raises gets one "could not stat" issue and no zero-byte
\* issue; the scan goes on: every other file still has its Finding and its health
\* issues, and the walk ends at the menu.
C8_StatFailureRecorded ==
    /\ pc = "scan" => \A f \in fs_files \ pending : Cardinality(Occurrences(f)) = 1
    /\ LoopDone =>
        \A f \in fs_files :
            /\ Cardinality(Occurrences(f)) = 1
            /\ st[f].raises =>
                  /\ CountText(IssuesOf(f), "could not stat file (permissions/corruption)") = 1
                  /\ CountText(IssuesOf(f), "zero-byte file") = 0
            /\ ~st[f].raises =>
                  /\ CountText(IssuesOf(f), "could not stat file (permissions/corruption)") = 0
                  /\ CountText(IssuesOf(f), "zero-byte file") = (IF st[f].st_size = 0 THEN 1 ELSE 0)

C8_Witness ==
    /\ pc = "menu"
    /\ \E i, j \in 1..Len(issues) :
          /\ i < j
          /\ st[issues[i].path].raises
          /\ issues[i].reason.text = "could not stat file (permissions/corruption)"
          /\ issues[j].path # issues[i].path
          /\ issues[j].reason.text = "zero-byte file"

JunkDirSet == {d \in fs_dirs : Lower(Name(d)) \in JUNK_DIRNAMES}

\* the junk directories are recorded, whatever their case and depth
JunkDirsRecorded ==
    pc \in {"scan", "menu", "confirm", "delete"} =>
        /\ Range(junk_dirs) = JunkDirSet
        /\ Len(junk_dirs) = Cardinality(JunkDirSet)
        /\ <<<<"_","_","M","A","C","O","S","X">>>> \in fs_dirs => <<<<"_","_","M","A","C","O","S","X">>>> \in Range(junk_dirs)
        /\ <<<<"E","m","p","t","y">>, <<"_","_","M","a","c","O","S","X">>>> \in fs_dirs
              => <<<<"E","m","p","t","y">>, <<"_","_","M","a","c","O","S","X">>>> \in Range(junk_dirs)

\* no directory is in the deletion list
DirsNotListed ==
    \A i \in 1..Len(delete_list) :
        delete_list[i] \notin Range(junk_dirs) /\ delete_list[i] \notin fs_dirs

\* the sweep visits no directory after one of its ancestors
ChildrenFirst ==
    pc = "sweep" =>
        \A i, j \in 1..Len(sweep_list) : i < j => ~IsUnder(sweep_list[j], sweep_list[i])

\* a directory goes only in the sweep, after the deletion loop, when it has no
\* entry at its visit; the sweep removes no file
SweepStepOnly ==
    /\ pc # "sweep" => fs_dirs' = fs_dirs
    /\ pc = "sweep" => di > Len(delete_list) /\ fs_files' = fs_files
    /\ fs_dirs' # fs_dirs =>
          /\ fs_dirs' = fs_dirs \ {sweep_list[si]}
          /\ ~HasEntries(sweep_list[si])

\* some rmdir on d or below it raised
RmdirFailedAtOrUnder(d) ==
    \E i \in 1..Len(oplog) :
        /\ oplog[i].op = "rmdir" /\ ~oplog[i].ok
        /\ (oplog[i].path = d \/ IsUnder(oplog[i].path, d))

\* after a sweep every directory the deletions left without any file is gone
ChainRemoved ==
    (pc = "done" /\ remove_empty = <<"y">>) =>
        \A d \in fs_dirs :
            (\E i \in 1..Len(Unlinks) : Unlinks[i].ok /\ IsUnder(Unlinks[i].path, d))
                => \E f \in fs_files : IsUnder(f, d)

\* after a sweep every directory without any file below it is gone, unless an
\* rmdir on it or below it raised
ChainRemovedUnlessRmdirFailed ==
    (pc = "done" /\ remove_empty = <<"y">>) =>
        \A d \in fs_dirs : (\E f \in fs_files : IsUnder(f, d)) \/ RmdirFailedAtOrUnder(d)

====
